---- MODULE Spec2Model ----
(***************************************************************************)
(* Model of the task manager's remote-collection client                    *)
(* (SharePointService) as a state machine.  One client object runs its     *)
(* public operations one after the other; every awaited HTTP request is    *)
(* one step, answered by the server with a response chosen from a small    *)
(* set.  The private field _listItemEntityTypeFullName survives from one   *)
(* operation to the next.                                                  *)
(*                                                                         *)
(* The presentation component (TaskManagerHost) is a second state machine: *)
(* its handlers run up to their next await in one step, and a call it made *)
(* on the client settles in a later step.                                  *)
(*                                                                         *)
(* A third state machine runs the provisioning protocol of two clients,    *)
(* one in each of two browser tabs, against one store of lists and fields: *)
(* every request is one step, in which the store answers and changes.      *)
(***************************************************************************)
EXTENDS Integers, Sequences, FiniteSets, TLC

VARIABLES
    op,        \* the public operation in progress: its name and arguments
    pc,        \* the await the operation is suspended at
    attempt,   \* iterations of the fallback loop finished in the current logical call
    cache,     \* this._listItemEntityTypeFullName
    response,  \* the response the last fallback call returned to its caller
    attempts,  \* history: the requests of the latest logical call, each with its response
    calls,     \* history: the logical calls this operation has finished, each with
               \* the method's name, whether it threw, and what it returned
    result,    \* how the operation's promise settled
    opsDone,   \* public operations started so far
    \* TaskManagerHost
    tasks,         \* state.tasks, the list on display
    newTask,       \* state.newTask, the draft in the form
    editingTaskId, \* state.editingTaskId
    isLoading,     \* state.isLoading
    error,         \* state.error
    isSubmitting,  \* this._isSubmitting, the submission guard
    mounted,       \* componentDidMount has run
    running,       \* the handlers suspended at an await, oldest first
    event,         \* history: the handler or continuation that ran last, and
                   \* the call it made on the client
    mutations,     \* creates, updates and deletes accepted so far
    \* Two tabs and their store
    store,         \* the site: whether the list is there, and which fields it has
    tabs,          \* for each tab, the await its operation is at and how it settled
    issued         \* history: the creation requests the tabs sent, with the answers

vars == <<op, pc, attempt, cache, response, attempts, calls, result, opsDone>>

hostVars ==
    <<tasks, newTask, editingTaskId, isLoading, error, isSubmitting, mounted,
      running, event, mutations>>

storeVars == <<store, tabs, issued>>

----------------------------------------------------------------------------
(* Bounds *)

\* Public operations run on the one client object.
MaxOps == 2
\* Longest item array the server answers a list query with.
MaxItems == 2
\* Creates, updates and deletes the component accepts.
MaxMutations == 2

----------------------------------------------------------------------------
(* JavaScript values *)

\* undefined, for the string-valued slots (the cached descriptor, a missing property)
Undefined == "<undefined>"

\* {}: the object without properties
EmptyObj == [k \in {} |-> k]

\* undefined where an object is expected (an omitted argument, a missing result)
NoObject == [undefined |-> TRUE]

\* obj.key, undefined when the property is missing
Get(obj, key) == IF key \in DOMAIN obj THEN obj[key] ELSE Undefined

\* truthiness of a string | undefined
Truthy(s) == s # Undefined /\ s # ""

\* a || b for strings
OrElse(a, b) == IF Truthy(a) THEN a ELSE b

\* Field names are compared after toLowerCase(), so they are sequences of characters.
UpperChars ==
    <<"A","B","C","D","E","F","G","H","I","J","K","L","M",
      "N","O","P","Q","R","S","T","U","V","W","X","Y","Z">>

LowerChars ==
    <<"a","b","c","d","e","f","g","h","i","j","k","l","m",
      "n","o","p","q","r","s","t","u","v","w","x","y","z">>

LowerChar(c) ==
    IF \E k \in 1..26 : UpperChars[k] = c
    THEN LowerChars[CHOOSE k \in 1..26 : UpperChars[k] = c]
    ELSE c

\* String.prototype.toLowerCase
ToLowerCase(s) == [k \in 1..Len(s) |-> LowerChar(s[k])]

Responsable == <<"R","e","s","p","o","n","s","a","b","l","e">>
Estado == <<"E","s","t","a","d","o">>

----------------------------------------------------------------------------
(* Requests *)

\* Variant: the legacy format is tried before plain JSON.
acceptHeaders_VerboseSecond ==
    <<"application/json;odata=nometadata",
      "application/json;odata=verbose",
      "application/json">>

acceptHeaders ==
    <<"application/json;odata=nometadata",
      "application/json",
      "application/json;odata=verbose">>

\* The requests _getWithAcceptFallback may issue for a url, in order.
GetAttempts(url) ==
    [k \in 1..Len(acceptHeaders) |->
        [method |-> "GET", url |-> url,
         headers |-> [Accept |-> acceptHeaders[k]]]]

\* if (bodyVerbose): an object, even {}, is truthy; only a missing argument is not
Supplied(obj) == obj # NoObject

\* Variant: an empty verbose body counts as none.
PostBodies_EmptyIsNone(bodyNoMetadata, bodyVerbose) ==
    LET both ==
            << [accept |-> "application/json;odata=nometadata",
                contentType |-> "application/json;odata=nometadata",
                body |-> bodyNoMetadata],
               [accept |-> "application/json",
                contentType |-> "application/json",
                body |-> bodyNoMetadata] >>
    IN  IF Supplied(bodyVerbose) /\ bodyVerbose # EmptyObj
        THEN Append(both,
                 [accept |-> "application/json;odata=verbose",
                  contentType |-> "application/json;odata=verbose",
                  body |-> bodyVerbose])
        ELSE both

\* The attempts _postWithAcceptFallback prepares, in order.
PostBodies(bodyNoMetadata, bodyVerbose) ==
    LET both ==
            << [accept |-> "application/json;odata=nometadata",
                contentType |-> "application/json;odata=nometadata",
                body |-> bodyNoMetadata],
               [accept |-> "application/json",
                contentType |-> "application/json",
                body |-> bodyNoMetadata] >>
    IN  IF Supplied(bodyVerbose)
        THEN Append(both,
                 [accept |-> "application/json;odata=verbose",
                  contentType |-> "application/json;odata=verbose",
                  body |-> bodyVerbose])
        ELSE both

\* Variant: the additional headers go with the first attempt only.
PostHeaders_FirstAttemptOnly(a, additionalHeaders) ==
    (IF Supplied(additionalHeaders) /\ a.accept = "application/json;odata=nometadata"
     THEN additionalHeaders ELSE EmptyObj)
        @@ ("Accept" :> a.accept @@ "Content-Type" :> a.contentType)

\* The headers of one POST: the additional headers are spread last and win.
PostHeaders(a, additionalHeaders) ==
    (IF Supplied(additionalHeaders) THEN additionalHeaders ELSE EmptyObj)
        @@ ("Accept" :> a.accept @@ "Content-Type" :> a.contentType)

\* The requests _postWithAcceptFallback may issue, in order.  The body is the
\* object that JSON.stringify serialises.
PostAttempts(url, bodyNoMetadata, bodyVerbose, additionalHeaders) ==
    LET as == PostBodies(bodyNoMetadata, bodyVerbose)
    IN  [k \in 1..Len(as) |->
            [method |-> "POST", url |-> url,
             headers |-> PostHeaders(as[k], additionalHeaders),
             body |-> as[k].body]]

\* Variant: the loop gives up one attempt early.
LoopReturns_OneShort(status, k, n) == status # 406 \/ k >= n - 1

\* Variant: a request the server failed on is sent again as well.
LoopReturns_AgainOnServerError(status, k, n) ==
    (status # 406 /\ status # 500) \/ k = n

\* The fallback loops leave on the first status other than 406, or after the last attempt.
LoopReturns(status, k, n) == status # 406 \/ k = n

\* What the fallback returns: the response of the attempt it stopped at (lastResponse).
ReturnedResponse(log) == log[Len(log)].resp

\* response.ok
Ok(resp) == resp.status >= 200 /\ resp.status <= 299

----------------------------------------------------------------------------
(* Urls *)

ListUrl == [path |-> "getbytitle"]
FieldsUrl(internalName) == [path |-> "getbytitle/fields", filter |-> internalName]
CreateListUrl == [path |-> "lists"]
CreateFieldUrl == [path |-> "getbytitle/fields/createfieldasxml"]
ItemsQueryUrl == [path |-> "getbytitle/items", query |-> "select,expand=Author,orderby=Id desc"]
ItemsUrl == [path |-> "getbytitle/items"]
ItemUrl(taskId) == [path |-> "getbytitle/items(id)", id |-> taskId]

----------------------------------------------------------------------------
(* The server *)

\* Statuses the server answers with.
OkStatuses == {200, 204}
FailStatuses == {401, 403, 404, 406, 409, 500}

StatusText(status) ==
    CASE status = 200 -> "OK"
      [] status = 204 -> "No Content"
      [] status = 401 -> "Unauthorized"
      [] status = 403 -> "Forbidden"
      [] status = 404 -> "Not Found"
      [] status = 406 -> "Not Acceptable"
      [] status = 409 -> "Conflict"
      [] status = 500 -> "Internal Server Error"
      [] OTHER -> ""

\* Body texts of a response that is not ok; a 406 answer has an empty body.
Texts(status) == IF status = 406 THEN {""} ELSE {"", "Access denied"}

\* Descriptors the server may report for the list.
Descriptors == {"SP.Data.TaskManagerListItem", "SP.Data.TasksListItem"}

NoResponse == [status |-> 0, statusText |-> "", text |-> "", json |-> EmptyObj]

FailResponses ==
    UNION {{[status |-> s, statusText |-> StatusText(s), text |-> t, json |-> EmptyObj] :
                t \in Texts(s)} : s \in FailStatuses}

OkResponses(jsons, statuses) ==
    {[status |-> s, statusText |-> StatusText(s), text |-> "", json |-> j] :
        s \in statuses, j \in jsons}

\* Bodies of an ok answer to the list query: either envelope, with or without
\* a usable descriptor.
ListInfoJsons ==
    {[ListItemEntityTypeFullName |-> d] : d \in Descriptors}
    \cup {[d |-> [ListItemEntityTypeFullName |-> d]] : d \in Descriptors}
    \cup {EmptyObj, [ListItemEntityTypeFullName |-> ""], [d |-> EmptyObj]}

\* Internal names the server may list in answer to a field query.
OtherName == <<"T","i","t","l","e">>

\* Field arrays the server may answer a field query with: no field, a field
\* without a name, the field asked for (as spelled, or in another case, or
\* after another field), another field.
FieldLists(internalName) ==
    { <<>>, <<EmptyObj>>,
      <<[InternalName |-> internalName]>>,
      <<[InternalName |-> ToLowerCase(internalName)]>>,
      <<[InternalName |-> OtherName]>>,
      <<[InternalName |-> OtherName], [InternalName |-> internalName]>> }

\* Bodies of an ok answer to a field query, in either envelope or in none.
FieldJsons(internalName) ==
    {[value |-> l] : l \in FieldLists(internalName)}
    \cup {[d |-> [results |-> l]] :
            l \in {<<>>, <<[InternalName |-> ToLowerCase(internalName)]>>}}
    \cup {EmptyObj, [d |-> EmptyObj]}

\* Items the server may answer a list query with.
ItemPool ==
    { [Id |-> 1, Title |-> "Informe", Responsable |-> "Ana", Estado |-> "En Progreso",
       Author |-> [Title |-> "Luis"], Created |-> "2024-01-01", Modified |-> "2024-01-02"],
      [Id |-> 2, Title |-> "Compras"],
      [Title |-> "", Estado |-> "", Author |-> EmptyObj] }

RECURSIVE SeqsUpTo(_, _)
SeqsUpTo(S, n) ==
    IF n = 0 THEN {<<>>}
    ELSE LET shorter == SeqsUpTo(S, n - 1)
         IN  shorter \cup {Append(q, x) : q \in shorter, x \in S}

ItemLists == SeqsUpTo(ItemPool, MaxItems)

\* Bodies of an ok answer to the items query.
ItemsJsons ==
    {[value |-> l] : l \in ItemLists}
    \cup {[d |-> [results |-> l]] : l \in ItemLists}
    \cup {EmptyObj, [d |-> EmptyObj]}

\* What the server may answer to a request.  A read that is ok carries a body
\* that decodes as JSON.
Responses(req) ==
    FailResponses \cup
    IF req.method = "POST" THEN OkResponses({EmptyObj}, OkStatuses)
    ELSE IF req.url = ListUrl THEN OkResponses(ListInfoJsons, {200})
    ELSE IF req.url.path = "getbytitle/fields"
         THEN OkResponses(FieldJsons(req.url.filter), {200})
    ELSE OkResponses(ItemsJsons, {200})

----------------------------------------------------------------------------
(* The client: what each method does with the response it gets *)

\* Error messages, named after the error each one stands for.
StoreAccessError == "No se pudo acceder a la lista 'TaskManager'"
FieldCheckError == "No se pudieron verificar los campos de la lista 'TaskManager'"
ListPermissionError == "No tienes permisos para crear la lista 'TaskManager' en este sitio"
CreationError == "No se pudo crear la lista 'TaskManager'"
ProvisioningError == "Se intento crear la lista 'TaskManager', pero no se pudieron obtener sus metadatos"
FieldPermissionError == "No tienes permisos para crear campos en la lista 'TaskManager'"
FieldCreationError == "No se pudo crear un campo en la lista 'TaskManager'"
LoadTasksError == "No se pudieron cargar las tareas"
CreateTaskError == "No se pudo crear la tarea"
UpdateTaskError == "No se pudo actualizar la tarea"
DeleteTaskError == "No se pudo eliminar la tarea"

\* The required fields a message lists by name: the permission message of a
\* field creation lists both, whichever of them was being created.
FieldsNamed(message) ==
    IF message = FieldPermissionError THEN {Responsable, Estado} ELSE {}

\* The message says that an owner or administrator must create the fields.
AsksAdministrator(message) == message = FieldPermissionError

\* new Error(`<message>: ${response.status} ${response.statusText} ${text}`)
HttpError(message, r) ==
    [message |-> message, status |-> r.status, statusText |-> r.statusText,
     text |-> r.text]

Returns(v) == [throws |-> FALSE, value |-> v]
Throws(e) == [throws |-> TRUE, error |-> e]

\* listInfo?.ListItemEntityTypeFullName is truthy
HasDescriptor(obj) ==
    /\ "ListItemEntityTypeFullName" \in DOMAIN obj
    /\ Truthy(obj.ListItemEntityTypeFullName)

\* Variant: every failed list check counts as "not found".
TryGetListInfo_FailureIsNotFound(r) ==
    IF ~Ok(r)
    THEN Returns(NoObject)
    ELSE IF "d" \in DOMAIN r.json /\ HasDescriptor(r.json.d)
         THEN Returns(r.json.d)
         ELSE Returns(r.json)

\* _tryGetListInfo, from the response on
TryGetListInfo(r) ==
    IF ~Ok(r)
    THEN IF r.status = 404
         THEN Returns(NoObject)
         ELSE Throws(HttpError(StoreAccessError, r))
    ELSE IF "d" \in DOMAIN r.json /\ HasDescriptor(r.json.d)
         THEN Returns(r.json.d)
         ELSE Returns(r.json)

\* Variant: the first check's result is not looked at, the list is created anyway.
EnsureListExists_CreateFirst(at, listInfo) ==
    IF at = "tryGetListInfo" THEN "createTaskList"
    ELSE IF HasDescriptor(listInfo) THEN "fieldExistsResponsable"
    ELSE "throw"

\* Variant: the creation is tried again while the list is not found.
EnsureListExists_CreateAgain(at, listInfo) ==
    IF HasDescriptor(listInfo) THEN "fieldExistsResponsable"
    ELSE "createTaskList"

\* ensureListExists, after a list check returned listInfo at await `at`
EnsureListExists(at, listInfo) ==
    IF HasDescriptor(listInfo) THEN "fieldExistsResponsable"
    ELSE IF at = "tryGetListInfo" THEN "createTaskList"
    ELSE "throw"

\* Variant: the legacy envelope is not looked into.
ArrayOf_ValueOnly(json) ==
    IF "value" \in DOMAIN json THEN json.value ELSE <<>>

\* nonVerbose.value || verbose || []
ArrayOf(json) ==
    IF "value" \in DOMAIN json THEN json.value
    ELSE IF "d" \in DOMAIN json /\ "results" \in DOMAIN json.d THEN json.d.results
    ELSE <<>>

\* f.InternalName || ''
InternalNameOf(f) == IF "InternalName" \in DOMAIN f THEN f.InternalName ELSE <<>>

\* Variant: the names are compared as spelled.
FieldExists_CaseSensitive(r, internalName) ==
    IF ~Ok(r)
    THEN Throws(HttpError(FieldCheckError, r))
    ELSE LET fields == ArrayOf(r.json)
         IN  Returns(\E k \in 1..Len(fields) :
                 InternalNameOf(fields[k]) = internalName)

\* _fieldExists, from the response on
FieldExists(r, internalName) ==
    IF ~Ok(r)
    THEN Throws(HttpError(FieldCheckError, r))
    ELSE LET fields == ArrayOf(r.json)
         IN  Returns(\E k \in 1..Len(fields) :
                 ToLowerCase(InternalNameOf(fields[k])) = ToLowerCase(internalName))

\* Variant: a conflict is an error like any other.
CreateTaskList_ConflictFails(r) ==
    IF ~Ok(r)
    THEN IF r.status = 401 \/ r.status = 403
         THEN Throws(HttpError(ListPermissionError, r))
         ELSE Throws(HttpError(CreationError, r))
    ELSE Returns(Undefined)

\* _createTaskList, from the response on
CreateTaskList(r) ==
    IF ~Ok(r) /\ r.status # 409
    THEN IF r.status = 401 \/ r.status = 403
         THEN Throws(HttpError(ListPermissionError, r))
         ELSE Throws(HttpError(CreationError, r))
    ELSE Returns(Undefined)

\* Variant: a refused creation is reported like any other failure.
EnsureFieldXml_NoPermissionCase(r) ==
    IF ~Ok(r)
    THEN Throws(HttpError(FieldCreationError, r))
    ELSE Returns(Undefined)

\* _ensureFieldXml, from the response on
EnsureFieldXml(r) ==
    IF ~Ok(r)
    THEN IF r.status = 401 \/ r.status = 403
         THEN Throws(HttpError(FieldPermissionError, r))
         ELSE Throws(HttpError(FieldCreationError, r))
    ELSE Returns(Undefined)

\* Variant: a field that was created is checked again.
EnsureFields_CheckAgain(at, exists) ==
    CASE at = "fieldExistsResponsable" ->
            IF exists THEN "fieldExistsEstado" ELSE "ensureFieldXmlResponsable"
      [] at = "ensureFieldXmlResponsable" -> "fieldExistsResponsable"
      [] at = "fieldExistsEstado" ->
            IF exists THEN "item" ELSE "ensureFieldXmlEstado"
      [] at = "ensureFieldXmlEstado" -> "fieldExistsEstado"

\* _ensureFields: where it goes on from the await it is at
EnsureFields(at, exists) ==
    CASE at = "fieldExistsResponsable" ->
            IF exists THEN "fieldExistsEstado" ELSE "ensureFieldXmlResponsable"
      [] at = "ensureFieldXmlResponsable" -> "fieldExistsEstado"
      [] at = "fieldExistsEstado" ->
            IF exists THEN "item" ELSE "ensureFieldXmlEstado"
      [] at = "ensureFieldXmlEstado" -> "item"

\* item.Author?.Title || ''
AuthorTitle(item) ==
    IF "Author" \in DOMAIN item
    THEN OrElse(Get(item.Author, "Title"), "")
    ELSE ""

\* The mapping of one list item to an ITask; ID is item.Id, undefined when missing.
ToTask(item) ==
    [Title |-> OrElse(Get(item, "Title"), ""),
     Responsable |-> OrElse(Get(item, "Responsable"), ""),
     Estado |-> OrElse(Get(item, "Estado"), "Pendiente"),
     Autor |-> AuthorTitle(item),
     Creado |-> OrElse(Get(item, "Created"), ""),
     Modificado |-> OrElse(Get(item, "Modified"), "")]
    @@ (IF "Id" \in DOMAIN item THEN [ID |-> item.Id] ELSE EmptyObj)

\* getTasks, from the response on
GetTasks(r) ==
    IF ~Ok(r)
    THEN Throws(HttpError(LoadTasksError, r))
    ELSE LET items == ArrayOf(r.json)
         IN  Returns([k \in 1..Len(items) |-> ToTask(items[k])])

\* Variant: the response of a write is not looked at.
ItemWrite_FailureIgnored(r, message) == Returns(Undefined)

\* createTask, updateTask, deleteTask, from the response on
ItemWrite(r, message) ==
    IF ~Ok(r) THEN Throws(HttpError(message, r)) ELSE Returns(Undefined)

----------------------------------------------------------------------------
(* The client: the requests each method sends *)

ListTitle == "TaskManager"

CreateTaskListBody ==
    [BaseTemplate |-> 100, Title |-> ListTitle,
     Description |-> "Lista de tareas del Task Manager", ContentTypesEnabled |-> TRUE]

\* { '__metadata': { 'type': t }, ...body }
WithMetadata(t, body) == body @@ ("__metadata" :> [type |-> t])

CreateTaskListAttempts ==
    PostAttempts(CreateListUrl, CreateTaskListBody,
                 WithMetadata("SP.List", CreateTaskListBody), NoObject)

\* _getResponsableFieldXml, _getEstadoFieldXml
FieldXml(internalName) ==
    IF internalName = Responsable
    THEN [Name |-> Responsable, Type |-> "Text"]
    ELSE [Name |-> Estado, Type |-> "Choice", Default |-> "Pendiente",
          CHOICES |-> <<"Pendiente", "En Progreso", "Completada", "Cancelada">>]

EnsureFieldXmlAttempts(schemaXml) ==
    PostAttempts(CreateFieldUrl,
        [parameters |-> [SchemaXml |-> schemaXml]],
        [parameters |-> WithMetadata("SP.XmlSchemaFieldCreationInformation",
                                     [SchemaXml |-> schemaXml])],
        NoObject)

\* Variant: the cached descriptor is not used.
EntityType_Default(c) == "SP.ListItem"

\* this._listItemEntityTypeFullName || 'SP.ListItem'
EntityType(c) == OrElse(c, "SP.ListItem")

CreateTaskBody(task) ==
    [Title |-> task.Title, Responsable |-> task.Responsable,
     Estado |-> OrElse(task.Estado, "Pendiente")]

CreateTaskAttempts(task, c) ==
    PostAttempts(ItemsUrl, CreateTaskBody(task),
                 WithMetadata(EntityType(c), CreateTaskBody(task)), NoObject)

UpdateTaskBody(task) ==
    [Title |-> task.Title, Responsable |-> task.Responsable, Estado |-> task.Estado]

UpdateTaskAttempts(taskId, task, c) ==
    PostAttempts(ItemUrl(taskId), UpdateTaskBody(task),
                 WithMetadata(EntityType(c), UpdateTaskBody(task)),
                 ("IF-MATCH" :> "*" @@ "X-HTTP-Method" :> "MERGE"))

DeleteTaskAttempts(taskId) ==
    PostAttempts(ItemUrl(taskId), EmptyObj, EmptyObj,
                 ("IF-MATCH" :> "*" @@ "X-HTTP-Method" :> "DELETE"))

----------------------------------------------------------------------------
(* The state machine *)

\* Arguments the public operations are called with.
TaskIds == {1, 2}

TaskPool ==
    { [Title |-> "Informe", Responsable |-> "Ana", Estado |-> "En Progreso"],
      [ID |-> 7, Title |-> "Compras", Responsable |-> "Luis", Estado |-> "",
       Autor |-> "Luis"] }

\* updateTask is called with each identifier and each task.
UpdateArgs ==
    { [id |-> 1, task |-> [Title |-> "Informe", Responsable |-> "Ana", Estado |-> "En Progreso"]],
      [id |-> 2, task |-> [ID |-> 7, Title |-> "Compras", Responsable |-> "Luis", Estado |-> "",
                           Autor |-> "Luis"]] }

Operations ==
    {[name |-> "getTasks"]}
    \cup {[name |-> "createTask", task |-> t] : t \in TaskPool}
    \cup {[name |-> "updateTask", taskId |-> t.id, task |-> t.task] : t \in UpdateArgs}
    \cup {[name |-> "deleteTask", taskId |-> n] : n \in TaskIds}

Pending == [state |-> "pending"]
Resolved(v) == [state |-> "resolved", value |-> v]
Rejected(e) == [state |-> "rejected", error |-> e]

\* undefined where a task identifier is expected.  Like 0 it is falsy, and
\* the component does nothing with an identifier but test it and pass it on.
NoTaskId == 0

\* { Title: '', Responsable: '', Estado: 'Pendiente' }.  The two texts of a
\* draft are trimmed, so they are sequences of characters.
EmptyDraft == [Title |-> <<>>, Responsable |-> <<>>, Estado |-> "Pendiente"]

NoCall == [name |-> "none"]

\* The client after its constructor.
ClientInit ==
    /\ op = [name |-> "none"]
    /\ pc = "idle"
    /\ attempt = 0
    /\ cache = Undefined
    /\ response = NoResponse
    /\ attempts = <<>>
    /\ calls = <<>>
    /\ result = Pending
    /\ opsDone = 0

\* The component after its constructor.
HostInit ==
    /\ tasks = <<>>
    /\ newTask = EmptyDraft
    /\ editingTaskId = NoTaskId
    /\ isLoading = FALSE
    /\ error = Undefined
    /\ isSubmitting = FALSE
    /\ mounted = FALSE
    /\ running = <<>>
    /\ event = [name |-> "constructor", call |-> NoCall]
    /\ mutations = 0

\* The two clients that share a store: one in each of two browser tabs.
Tabs == {1, 2}

\* A site without the list.
EmptyStore == [list |-> FALSE, fields |-> {}]

\* The tabs after their constructors, on a site without the list.
StoreInit ==
    /\ store = EmptyStore
    /\ tabs = [c \in Tabs |-> [pc |-> "idle", result |-> Pending]]
    /\ issued = <<>>

\* The constructor of the component constructs the client it holds.
Init == ClientInit /\ HostInit /\ StoreInit

\* Variant: the protocol is skipped once a descriptor is cached.
EnsureListExistsEntry_SkipWhenCached(c) ==
    IF c # Undefined THEN "item" ELSE "tryGetListInfo"

\* Every public operation starts with `await this.ensureListExists()`, which starts
\* with `await this._tryGetListInfo()` whatever the cached descriptor c is.
EnsureListExistsEntry(c) == "tryGetListInfo"

\* A public operation is called on the client.
Call ==
    /\ pc \in {"idle", "done"}
    /\ opsDone < MaxOps
    /\ \E o \in Operations : op' = o
    /\ pc' = EnsureListExistsEntry(cache)
    /\ attempt' = 0
    /\ response' = NoResponse
    /\ attempts' = <<>>
    /\ calls' = <<>>
    /\ result' = Pending
    /\ opsDone' = opsDone + 1
    /\ UNCHANGED cache
    /\ UNCHANGED <<hostVars, storeVars>>

\* The history of the latest logical call after one more request of reqs got resp.
Sent(reqs, resp) ==
    Append(IF attempt = 0 THEN <<>> ELSE attempts,
           [req |-> reqs[attempt + 1], resp |-> resp])

\* The request the fallback loop over reqs sends next.
NextRequest(reqs) == reqs[attempt + 1]

\* The fallback loop over reqs goes round after the answer resp.
GoesRound(reqs, resp) == ~LoopReturns(resp.status, attempt + 1, Len(reqs))

\* One iteration of a fallback loop that goes round: the request was sent and
\* answered, the next attempt follows.
Again(reqs, resp) ==
    /\ attempts' = Sent(reqs, resp)
    /\ attempt' = attempt + 1
    /\ UNCHANGED <<op, pc, cache, response, calls, result, opsDone>>
    /\ UNCHANGED <<hostVars, storeVars>>

\* The last iteration of a fallback loop: the request was sent and answered,
\* and the loop returns a response to its caller.
Back(reqs, resp) ==
    /\ attempts' = Sent(reqs, resp)
    /\ attempt' = 0
    /\ response' = ReturnedResponse(Sent(reqs, resp))

\* The caller goes on to its next await, with c in the descriptor cache.
Proceed(call, next, c) ==
    /\ calls' = Append(calls, call)
    /\ pc' = next
    /\ cache' = c
    /\ UNCHANGED <<op, result, opsDone>>
    /\ UNCHANGED <<hostVars, storeVars>>

\* The operation's promise settles.
Settle(call, res) ==
    /\ calls' = Append(calls, call)
    /\ pc' = "done"
    /\ result' = res
    /\ UNCHANGED <<op, cache, opsDone>>
    /\ UNCHANGED <<hostVars, storeVars>>

AfterTryGetListInfo(r) ==
    LET got == TryGetListInfo(r)
    IN  IF got.throws
        THEN Settle([fn |-> pc, threw |-> TRUE, info |-> Undefined], Rejected(got.error))
        ELSE LET found == HasDescriptor(got.value)
                 info == IF found THEN got.value.ListItemEntityTypeFullName ELSE Undefined
                 next == EnsureListExists(pc, got.value)
                 call == [fn |-> pc, threw |-> next = "throw", info |-> info]
             IN  IF next = "throw"
                 THEN Settle(call, Rejected([message |-> ProvisioningError]))
                 ELSE Proceed(call, next, IF found THEN info ELSE cache)

\* ensureListExists: await this._tryGetListInfo(), before and after the creation
AwaitTryGetListInfo ==
    /\ pc \in {"tryGetListInfo", "tryGetListInfoAfter"}
    /\ LET reqs == GetAttempts(ListUrl)
       IN  \E resp \in Responses(NextRequest(reqs)) :
               IF GoesRound(reqs, resp)
               THEN Again(reqs, resp)
               ELSE /\ Back(reqs, resp)
                    /\ AfterTryGetListInfo(ReturnedResponse(Sent(reqs, resp)))

AfterCreateTaskList(r) ==
    LET got == CreateTaskList(r)
        call == [fn |-> pc, threw |-> got.throws, status |-> r.status]
    IN  IF got.throws
        THEN Settle(call, Rejected(got.error))
        ELSE Proceed(call, "tryGetListInfoAfter", cache)

\* ensureListExists: await this._createTaskList()
AwaitCreateTaskList ==
    /\ pc = "createTaskList"
    /\ LET reqs == CreateTaskListAttempts
       IN  \E resp \in Responses(NextRequest(reqs)) :
               IF GoesRound(reqs, resp)
               THEN Again(reqs, resp)
               ELSE /\ Back(reqs, resp)
                    /\ AfterCreateTaskList(ReturnedResponse(Sent(reqs, resp)))

\* The field an await of _ensureFields is about.
FieldAt(at) ==
    IF at \in {"fieldExistsResponsable", "ensureFieldXmlResponsable"}
    THEN Responsable ELSE Estado

AfterFieldExists(r) ==
    LET got == FieldExists(r, FieldAt(pc))
    IN  IF got.throws
        THEN Settle([fn |-> pc, threw |-> TRUE, exists |-> FALSE], Rejected(got.error))
        ELSE Proceed([fn |-> pc, threw |-> FALSE, exists |-> got.value],
                     EnsureFields(pc, got.value), cache)

\* _ensureFields: await this._fieldExists(...)
AwaitFieldExists ==
    /\ pc \in {"fieldExistsResponsable", "fieldExistsEstado"}
    /\ LET reqs == GetAttempts(FieldsUrl(FieldAt(pc)))
       IN  \E resp \in Responses(NextRequest(reqs)) :
               IF GoesRound(reqs, resp)
               THEN Again(reqs, resp)
               ELSE /\ Back(reqs, resp)
                    /\ AfterFieldExists(ReturnedResponse(Sent(reqs, resp)))

AfterEnsureFieldXml(r) ==
    LET got == EnsureFieldXml(r)
        call == [fn |-> pc, threw |-> got.throws]
    IN  IF got.throws
        THEN Settle(call, Rejected(got.error))
        ELSE Proceed(call, EnsureFields(pc, FALSE), cache)

\* _ensureFields: await this._ensureFieldXml(...)
AwaitEnsureFieldXml ==
    /\ pc \in {"ensureFieldXmlResponsable", "ensureFieldXmlEstado"}
    /\ LET reqs == EnsureFieldXmlAttempts(FieldXml(FieldAt(pc)))
       IN  \E resp \in Responses(NextRequest(reqs)) :
               IF GoesRound(reqs, resp)
               THEN Again(reqs, resp)
               ELSE /\ Back(reqs, resp)
                    /\ AfterEnsureFieldXml(ReturnedResponse(Sent(reqs, resp)))

AfterItem(got, r) ==
    Settle([fn |-> op.name, threw |-> got.throws],
           IF got.throws THEN Rejected(got.error) ELSE Resolved(got.value))

AfterGetTasks(r) == AfterItem(GetTasks(r), r)
AfterCreateTask(r) == AfterItem(ItemWrite(r, CreateTaskError), r)
AfterUpdateTask(r) == AfterItem(ItemWrite(r, UpdateTaskError), r)
AfterDeleteTask(r) == AfterItem(ItemWrite(r, DeleteTaskError), r)

\* getTasks: await this._getWithAcceptFallback(url)
AwaitGetTasks ==
    /\ pc = "item" /\ op.name = "getTasks"
    /\ LET reqs == GetAttempts(ItemsQueryUrl)
       IN  \E resp \in Responses(NextRequest(reqs)) :
               IF GoesRound(reqs, resp)
               THEN Again(reqs, resp)
               ELSE /\ Back(reqs, resp)
                    /\ AfterGetTasks(ReturnedResponse(Sent(reqs, resp)))

\* createTask: await this._postWithAcceptFallback(url, bodyNoMetadata, bodyVerbose)
AwaitCreateTask ==
    /\ pc = "item" /\ op.name = "createTask"
    /\ LET reqs == CreateTaskAttempts(op.task, cache)
       IN  \E resp \in Responses(NextRequest(reqs)) :
               IF GoesRound(reqs, resp)
               THEN Again(reqs, resp)
               ELSE /\ Back(reqs, resp)
                    /\ AfterCreateTask(ReturnedResponse(Sent(reqs, resp)))

\* updateTask: await this._postWithAcceptFallback(url, ..., MERGE headers)
AwaitUpdateTask ==
    /\ pc = "item" /\ op.name = "updateTask"
    /\ LET reqs == UpdateTaskAttempts(op.taskId, op.task, cache)
       IN  \E resp \in Responses(NextRequest(reqs)) :
               IF GoesRound(reqs, resp)
               THEN Again(reqs, resp)
               ELSE /\ Back(reqs, resp)
                    /\ AfterUpdateTask(ReturnedResponse(Sent(reqs, resp)))

\* deleteTask: await this._postWithAcceptFallback(url, {}, {}, DELETE headers)
AwaitDeleteTask ==
    /\ pc = "item" /\ op.name = "deleteTask"
    /\ LET reqs == DeleteTaskAttempts(op.taskId)
       IN  \E resp \in Responses(NextRequest(reqs)) :
               IF GoesRound(reqs, resp)
               THEN Again(reqs, resp)
               ELSE /\ Back(reqs, resp)
                    /\ AfterDeleteTask(ReturnedResponse(Sent(reqs, resp)))

Next ==
    \/ Call
    \/ AwaitTryGetListInfo
    \/ AwaitCreateTaskList
    \/ AwaitFieldExists
    \/ AwaitEnsureFieldXml
    \/ AwaitGetTasks
    \/ AwaitCreateTask
    \/ AwaitUpdateTask
    \/ AwaitDeleteTask

\* The client at work, the component at rest.
Spec == Init /\ [][Next]_<<vars, hostVars, storeVars>>

----------------------------------------------------------------------------
(* The presentation component *)

\* String.prototype.trim
Whitespace == {" "}

RECURSIVE TrimStart(_)
TrimStart(s) ==
    IF s # <<>> /\ Head(s) \in Whitespace THEN TrimStart(Tail(s)) ELSE s

RECURSIVE TrimEnd(_)
TrimEnd(s) ==
    IF s # <<>> /\ s[Len(s)] \in Whitespace
    THEN TrimEnd(SubSeq(s, 1, Len(s) - 1))
    ELSE s

Trim(s) == TrimEnd(TrimStart(s))

\* !s.trim()
IsBlank(s) == Trim(s) = <<>>

\* truthiness of a number | undefined
TruthyId(id) == id # NoTaskId

ValidationError == "Por favor completa todos los campos"

\* What the user may type into the two text inputs, and the options of the select.
Typed == {<<>>, <<" ">>, <<"T">>}
EstadoOptions == {"Pendiente", "En Progreso", "Completada", "Cancelada"}

Inputs(field) == IF field = "Estado" THEN EstadoOptions ELSE Typed

\* Task lists the client's getTasks may resolve with: a task may come without
\* an identifier and with empty texts.
HostTasks ==
    [a |-> [ID |-> 1, Title |-> <<"T">>, Responsable |-> <<"T">>, Estado |-> "Completada"],
     b |-> [ID |-> 2, Title |-> <<>>, Responsable |-> <<>>, Estado |-> "Pendiente"],
     c |-> [ID |-> NoTaskId, Title |-> <<"T">>, Responsable |-> <<" ">>, Estado |-> "Pendiente"]]

TaskLists == {<<>>, <<HostTasks.a>>, <<HostTasks.b, HostTasks.a>>, <<HostTasks.c>>}

\* What a call on the client may settle with: the client is the component's
\* environment, and each of its operations resolves, or rejects with one of
\* the errors it throws.
ClientResults(name) ==
    {Rejected([message |-> StoreAccessError])}
    \cup IF name = "getTasks"
         THEN {Resolved(l) : l \in TaskLists} \cup {Rejected([message |-> LoadTasksError])}
         ELSE {Resolved(Undefined),
               Rejected([message |-> CASE name = "createTask" -> CreateTaskError
                                       [] name = "updateTask" -> UpdateTaskError
                                       [] name = "deleteTask" -> DeleteTaskError])}

\* Variant: the error is logged and not shown.
MessageOf_Swallowed(e) == Undefined

\* error instanceof Error ? error.message : <default>; the client throws Errors only
MessageOf(e) == e.message

\* Variant: update and delete do not look at the guard.
HandleUpdateTaskPath_Unguarded(submitting, id) ==
    IF ~TruthyId(id) THEN "return" ELSE "submit"

\* _handleCreateTask, _handleUpdateTask, _handleDeleteTask up to the point
\* where they return early or go on to call the client.
HandleCreateTaskPath(submitting, draft) ==
    IF submitting THEN "return"
    ELSE IF IsBlank(draft.Title) \/ IsBlank(draft.Responsable) THEN "invalid"
    ELSE "submit"

HandleUpdateTaskPath(submitting, id) ==
    IF submitting THEN "return"
    ELSE IF ~TruthyId(id) THEN "return"
    ELSE "submit"

HandleDeleteTaskPath(taskId, submitting, confirmed) ==
    IF ~TruthyId(taskId) THEN "return"
    ELSE IF submitting THEN "return"
    ELSE IF confirmed THEN "submit"
    ELSE "return"

\* Variant: a failed fetch empties the list.
TasksAfter_ClearedOnFailure(current, res) ==
    IF res.state = "resolved" THEN res.value ELSE <<>>

\* _loadTasks: this.setState({ tasks }) when getTasks resolved
TasksAfter(current, res) ==
    IF res.state = "resolved" THEN res.value ELSE current

\* Variant: the guard is not reset.
HandlerFinally_GuardKept(kind, held) == held

\* The guard after the finally block of the handler that ends: componentDidMount
\* has none, the three others reset it.
HandlerFinally(kind, held) == IF kind = "mount" THEN held ELSE FALSE

\* running without its i-th handler
Without(i) ==
    [k \in 1..(Len(running) - 1) |-> IF k < i THEN running[k] ELSE running[k + 1]]

\* componentDidMount: await this._loadTasks(), up to the await of getTasks
ComponentDidMount ==
    /\ ~mounted
    /\ mounted' = TRUE
    /\ isLoading' = TRUE
    /\ error' = Undefined
    /\ running' = Append(running, [kind |-> "mount", at |-> "getTasks"])
    /\ event' = [name |-> "componentDidMount", call |-> [name |-> "getTasks"]]
    /\ UNCHANGED <<tasks, newTask, editingTaskId, isSubmitting, mutations>>
    /\ UNCHANGED <<vars, storeVars>>

\* _handleInputChange(field, value)
HandleInputChange ==
    /\ mounted
    /\ \E field \in {"Title", "Responsable", "Estado"} :
          \E value \in Inputs(field) :
              newTask' = [newTask EXCEPT ![field] = value]
    /\ event' = [name |-> "handleInputChange", call |-> NoCall]
    /\ UNCHANGED <<tasks, editingTaskId, isLoading, error, isSubmitting, mounted,
                   running, mutations>>
    /\ UNCHANGED <<vars, storeVars>>

\* A handler returns before it changes anything.
ReturnsEarly ==
    UNCHANGED <<tasks, newTask, editingTaskId, isLoading, error, isSubmitting,
                mounted, running, mutations>>

\* this._isSubmitting = true; this.setState({ isLoading: true }); and the call
\* on the client the handler awaits
Submits(kind, call) ==
    /\ mutations < MaxMutations
    /\ mutations' = mutations + 1
    /\ isSubmitting' = TRUE
    /\ isLoading' = TRUE
    /\ running' = Append(running, [kind |-> kind, at |-> call.name])
    /\ UNCHANGED <<tasks, newTask, editingTaskId, error, mounted>>

\* _handleCreateTask, up to the await of createTask
HandleCreateTask ==
    /\ mounted
    /\ LET path == HandleCreateTaskPath(isSubmitting, newTask)
           call == [name |-> "createTask", task |-> newTask]
       IN  /\ event' = [name |-> "handleCreateTask", path |-> path,
                        call |-> IF path = "submit" THEN call ELSE NoCall]
           /\ CASE path = "return" -> ReturnsEarly
                [] path = "invalid" ->
                      /\ error' = ValidationError
                      /\ UNCHANGED <<tasks, newTask, editingTaskId, isLoading,
                                     isSubmitting, mounted, running, mutations>>
                [] path = "submit" ->
                      Submits("create", call)
    /\ UNCHANGED <<vars, storeVars>>

\* _handleUpdateTask, up to the await of updateTask
HandleUpdateTask ==
    /\ mounted
    /\ LET path == HandleUpdateTaskPath(isSubmitting, editingTaskId)
           call == [name |-> "updateTask", taskId |-> editingTaskId, task |-> newTask]
       IN  /\ event' = [name |-> "handleUpdateTask", path |-> path,
                        call |-> IF path = "submit" THEN call ELSE NoCall]
           /\ CASE path = "return" -> ReturnsEarly
                [] path = "submit" -> Submits("update", call)
    /\ UNCHANGED <<vars, storeVars>>

\* _handleEditTask(task), for a task on display
HandleEditTask ==
    /\ mounted
    /\ \E k \in 1..Len(tasks) :
          /\ editingTaskId' = tasks[k].ID
          /\ newTask' = [Title |-> tasks[k].Title,
                         Responsable |-> tasks[k].Responsable,
                         Estado |-> tasks[k].Estado]
    /\ event' = [name |-> "handleEditTask", call |-> NoCall]
    /\ UNCHANGED <<tasks, isLoading, error, isSubmitting, mounted, running,
                   mutations>>
    /\ UNCHANGED <<vars, storeVars>>

\* _handleCancelEdit
HandleCancelEdit ==
    /\ mounted
    /\ editingTaskId' = NoTaskId
    /\ newTask' = EmptyDraft
    /\ event' = [name |-> "handleCancelEdit", call |-> NoCall]
    /\ UNCHANGED <<tasks, isLoading, error, isSubmitting, mounted, running,
                   mutations>>
    /\ UNCHANGED <<vars, storeVars>>

\* _handleDeleteTask(task.ID), for a task on display, up to the await of
\* deleteTask; window.confirm answers either way
HandleDeleteTask ==
    /\ mounted
    /\ \E k \in 1..Len(tasks) : \E confirmed \in BOOLEAN :
          LET path == HandleDeleteTaskPath(tasks[k].ID, isSubmitting, confirmed)
              call == [name |-> "deleteTask", taskId |-> tasks[k].ID]
          IN  /\ event' = [name |-> "handleDeleteTask", path |-> path,
                           call |-> IF path = "submit" THEN call ELSE NoCall]
              /\ CASE path = "return" -> ReturnsEarly
                   [] path = "submit" -> Submits("delete", call)
    /\ UNCHANGED <<vars, storeVars>>

\* The button that closes the error on display.
CloseError ==
    /\ Truthy(error)
    /\ error' = Undefined
    /\ event' = [name |-> "closeError", call |-> NoCall]
    /\ UNCHANGED <<tasks, newTask, editingTaskId, isLoading, isSubmitting, mounted,
                   running, mutations>>
    /\ UNCHANGED <<vars, storeVars>>

\* _loadTasks from its await of getTasks on, and with it the rest of the
\* handler that awaited _loadTasks: its finally block.
LoadTasksSettles(i, res) ==
    /\ tasks' = TasksAfter(tasks, res)
    /\ error' = (IF res.state = "resolved" THEN error ELSE MessageOf(res.error))
    /\ isLoading' = FALSE
    /\ isSubmitting' = HandlerFinally(running[i].kind, isSubmitting)
    /\ running' = Without(i)
    /\ UNCHANGED <<newTask, editingTaskId, mounted, mutations>>

\* Variant: a delete that went through empties the form as well.
DraftAfterSuccess_AlwaysReset(kind, draft) == EmptyDraft

\* The draft after the client call of a handler resolved: _handleCreateTask and
\* _handleUpdateTask set it to the empty draft, _handleDeleteTask sets nothing.
DraftAfterSuccess(kind, draft) ==
    IF kind \in {"create", "update"} THEN EmptyDraft ELSE draft

\* A handler from its await of createTask, updateTask or deleteTask on: to the
\* await of getTasks in _loadTasks when the call resolved, to its end when
\* it rejected.
MutationSettles(i, res) ==
    IF res.state = "resolved"
    THEN /\ newTask' = DraftAfterSuccess(running[i].kind, newTask)
         /\ editingTaskId' = (IF running[i].kind = "update"
                              THEN NoTaskId ELSE editingTaskId)
         /\ error' = Undefined
         /\ isLoading' = TRUE
         /\ running' = [running EXCEPT ![i].at = "getTasks"]
         /\ UNCHANGED <<tasks, isSubmitting, mounted, mutations>>
    ELSE /\ error' = MessageOf(res.error)
         /\ isLoading' = FALSE
         /\ isSubmitting' = HandlerFinally(running[i].kind, isSubmitting)
         /\ running' = Without(i)
         /\ UNCHANGED <<tasks, newTask, editingTaskId, mounted, mutations>>

\* A call on the client settles and the handler that awaits it goes on.
ClientSettles ==
    /\ \E i \in 1..Len(running) : \E res \in ClientResults(running[i].at) :
          /\ event' = [name |-> "settles", kind |-> running[i].kind,
                       at |-> running[i].at, res |-> res,
                       call |-> IF running[i].at # "getTasks" /\ res.state = "resolved"
                                THEN [name |-> "getTasks"] ELSE NoCall]
          /\ IF running[i].at = "getTasks"
             THEN LoadTasksSettles(i, res)
             ELSE MutationSettles(i, res)
    /\ UNCHANGED <<vars, storeVars>>

HostNext ==
    \/ ComponentDidMount
    \/ HandleInputChange
    \/ HandleCreateTask
    \/ HandleUpdateTask
    \/ HandleEditTask
    \/ HandleCancelEdit
    \/ HandleDeleteTask
    \/ CloseError
    \/ ClientSettles

\* The component at work, the client its environment.
HostSpec == Init /\ [][HostNext]_<<vars, hostVars, storeVars>>

----------------------------------------------------------------------------
(* Two clients, one store *)

\* The fields the protocol requires.
RequiredFields == {Responsable, Estado}

\* The states of the store: a list has fields only if it is there.
Stores ==
    {EmptyStore} \cup {[list |-> TRUE, fields |-> fs] : fs \in SUBSET RequiredFields}

\* The descriptor the store reports for its list.
StoreDescriptor == "SP.Data.TaskManagerListItem"

\* Statuses the store may answer the creation of a field it already has with:
\* it may refuse the duplicate or accept it.
DuplicateFieldStatuses == {200, 500}

\* A response of the store.  It answers in the first format it is asked for,
\* so every call of the client is one request.
Answer(status, json) ==
    [status |-> status, statusText |-> StatusText(status), text |-> "", json |-> json]

\* The store's answer to the list check.
ListCheckAnswer(s) ==
    IF s.list
    THEN Answer(200, [ListItemEntityTypeFullName |-> StoreDescriptor])
    ELSE Answer(404, EmptyObj)

\* The store's answer to the creation of the list: a conflict if it is there.
CreateListAnswer(s) ==
    IF s.list THEN Answer(409, EmptyObj) ELSE Answer(200, EmptyObj)

\* The store's answer to the check of a field.
FieldCheckAnswer(s, f) ==
    IF ~s.list THEN Answer(404, EmptyObj)
    ELSE Answer(200, [value |-> IF f \in s.fields
                                THEN <<[InternalName |-> f]>> ELSE <<>>])

\* The store's answers to the creation of a field.
CreateFieldAnswers(s, f) ==
    IF ~s.list THEN {Answer(404, EmptyObj)}
    ELSE IF f \in s.fields
         THEN {Answer(status, EmptyObj) : status \in DuplicateFieldStatuses}
         ELSE {Answer(200, EmptyObj)}

\* The tab after a call that threw e.
TabThrew(e) == [pc |-> "done", result |-> Rejected(e)]

\* The tab at its next await.
TabAt(next) == [pc |-> next, result |-> Pending]

\* A public operation is called in tab c: await this.ensureListExists()
TabCall(c) ==
    /\ tabs[c].pc = "idle"
    /\ tabs' = [tabs EXCEPT ![c] = TabAt(EnsureListExistsEntry(Undefined))]
    /\ UNCHANGED <<store, issued>>
    /\ UNCHANGED <<vars, hostVars>>

\* ensureListExists in tab c: await this._tryGetListInfo()
TabTryGetListInfo(c) ==
    /\ tabs[c].pc \in {"tryGetListInfo", "tryGetListInfoAfter"}
    /\ LET got == TryGetListInfo(ListCheckAnswer(store))
           next == IF got.throws THEN "throw"
                   ELSE EnsureListExists(tabs[c].pc, got.value)
       IN  tabs' = [tabs EXCEPT ![c] =
                       IF got.throws THEN TabThrew(got.error)
                       ELSE IF next = "throw"
                            THEN TabThrew([message |-> ProvisioningError])
                            ELSE TabAt(next)]
    /\ UNCHANGED <<store, issued>>
    /\ UNCHANGED <<vars, hostVars>>

\* ensureListExists in tab c: await this._createTaskList()
TabCreateTaskList(c) ==
    /\ tabs[c].pc = "createTaskList"
    /\ LET r == CreateListAnswer(store)
           got == CreateTaskList(r)
       IN  /\ store' = (IF Ok(r) THEN [store EXCEPT !.list = TRUE] ELSE store)
           /\ issued' = Append(issued, [tab |-> c, fn |-> "createTaskList",
                                        field |-> <<>>, status |-> r.status])
           /\ tabs' = [tabs EXCEPT ![c] =
                          IF got.throws THEN TabThrew(got.error)
                          ELSE TabAt("tryGetListInfoAfter")]
    /\ UNCHANGED <<vars, hostVars>>

\* _ensureFields in tab c: await this._fieldExists(...)
TabFieldExists(c) ==
    /\ tabs[c].pc \in {"fieldExistsResponsable", "fieldExistsEstado"}
    /\ LET f == FieldAt(tabs[c].pc)
           got == FieldExists(FieldCheckAnswer(store, f), f)
       IN  tabs' = [tabs EXCEPT ![c] =
                       IF got.throws THEN TabThrew(got.error)
                       ELSE TabAt(EnsureFields(tabs[c].pc, got.value))]
    /\ UNCHANGED <<store, issued>>
    /\ UNCHANGED <<vars, hostVars>>

\* _ensureFields in tab c: await this._ensureFieldXml(...)
TabEnsureFieldXml(c) ==
    /\ tabs[c].pc \in {"ensureFieldXmlResponsable", "ensureFieldXmlEstado"}
    /\ LET f == FieldAt(tabs[c].pc)
       IN  \E r \in CreateFieldAnswers(store, f) :
               LET got == EnsureFieldXml(r)
               IN  /\ store' = (IF Ok(r) THEN [store EXCEPT !.fields = @ \cup {f}]
                                ELSE store)
                   /\ issued' = Append(issued, [tab |-> c, fn |-> "ensureFieldXml",
                                                field |-> f, status |-> r.status])
                   /\ tabs' = [tabs EXCEPT ![c] =
                                  IF got.throws THEN TabThrew(got.error)
                                  ELSE TabAt(EnsureFields(tabs[c].pc, FALSE))]
    /\ UNCHANGED <<vars, hostVars>>

\* The protocol is over in tab c and the item-level call of its operation
\* goes through.
TabItem(c) ==
    /\ tabs[c].pc = "item"
    /\ tabs' = [tabs EXCEPT ![c] = [pc |-> "done", result |-> Resolved(Undefined)]]
    /\ UNCHANGED <<store, issued>>
    /\ UNCHANGED <<vars, hostVars>>

\* The two tabs are opened on a site in any state.
TwoTabsInit ==
    /\ ClientInit /\ HostInit
    /\ store \in Stores
    /\ tabs = [c \in Tabs |-> [pc |-> "idle", result |-> Pending]]
    /\ issued = <<>>

TwoTabsNext ==
    \/ \E c \in Tabs : TabCall(c)
    \/ \E c \in Tabs : TabTryGetListInfo(c)
    \/ \E c \in Tabs : TabCreateTaskList(c)
    \/ \E c \in Tabs : TabFieldExists(c)
    \/ \E c \in Tabs : TabEnsureFieldXml(c)
    \/ \E c \in Tabs : TabItem(c)

\* Two tabs at work on one store, one operation each.
TwoTabsSpec == TwoTabsInit /\ [][TwoTabsNext]_<<vars, hostVars, storeVars>>

----------------------------------------------------------------------------
(* Properties *)

ProvisioningFns ==
    {"tryGetListInfo", "createTaskList", "tryGetListInfoAfter",
     "fieldExistsResponsable", "ensureFieldXmlResponsable",
     "fieldExistsEstado", "ensureFieldXmlEstado"}

ItemFns == {"getTasks", "createTask", "updateTask", "deleteTask"}

ItemPaths == {"getbytitle/items", "getbytitle/items(id)"}

LastCall == calls[Len(calls)]

\* The latest logical call has returned to its caller.
Returned == attempts # <<>> /\ attempt = 0

\* The statuses the latest logical call was answered with.
Statuses == [k \in 1..Len(attempts) |-> attempts[k].resp.status]

\* A request of the item-level call is in the history.
ItemRequested ==
    \/ \E k \in 1..Len(attempts) : attempts[k].req.url.path \in ItemPaths
    \/ \E k \in 1..Len(calls) : calls[k].fn \in ItemFns

\* The calls made so far found the list and saw to both fields, none throwing.
Provisioned ==
    /\ \E k \in 1..Len(calls) :
          /\ calls[k].fn \in {"tryGetListInfo", "tryGetListInfoAfter"}
          /\ calls[k].info # Undefined
    /\ \A f \in {"Responsable", "Estado"} :
          \E k \in 1..Len(calls) :
              \/ calls[k].fn = "fieldExists" \o f /\ calls[k].exists
              \/ calls[k].fn = "ensureFieldXml" \o f /\ ~calls[k].threw
    /\ \A k \in 1..Len(calls) : calls[k].fn \in ProvisioningFns => ~calls[k].threw

\* C1: every public operation runs the provisioning protocol first, cached
\* descriptor or not: the first request of an operation is the list check, an
\* operation that has settled made at least one list check, an item-level
\* request is in the history only if the protocol of this operation found the
\* list and saw to both fields without throwing, and an operation whose
\* protocol threw issued no item-level request.
C1_ProvisioningFirst ==
    /\ (attempts # <<>> /\ calls = <<>>) => attempts[1].req.url = ListUrl
    /\ calls # <<>> => calls[1].fn = "tryGetListInfo"
    /\ pc = "done" => calls # <<>>
    /\ ItemRequested => Provisioned
    /\ (calls # <<>> /\ LastCall.fn \in ProvisioningFns /\ LastCall.threw) =>
          /\ pc = "done"
          /\ result.state = "rejected"
          /\ ~ItemRequested

\* A second operation, called with a descriptor cached, has made the list check
\* again, was told the list is gone, and is about to create it.
C1_Witness ==
    /\ opsDone = 2
    /\ cache # Undefined
    /\ pc = "createTaskList"
    /\ calls = <<[fn |-> "tryGetListInfo", threw |-> FALSE, info |-> Undefined]>>

\* The latest logical call is a read.
ReadCall == attempts # <<>> /\ attempts[1].req.method = "GET"

\* C2: a read tries minimal-metadata JSON, plain JSON, verbose JSON in this
\* order on one url; every attempt but the latest was answered 406; the read
\* goes on exactly while the answer is 406 and an Accept value is left; and the
\* response handed to the caller is the latest one, as the server sent it.
C2_ReadFallback ==
    ReadCall =>
        /\ Len(attempts) <= 3
        /\ \A k \in 1..Len(attempts) :
              /\ attempts[k].req.url = attempts[1].req.url
              /\ attempts[k].req.headers =
                    [Accept |-> CASE k = 1 -> "application/json;odata=nometadata"
                                  [] k = 2 -> "application/json"
                                  [] k = 3 -> "application/json;odata=verbose"]
              /\ k < Len(attempts) => attempts[k].resp.status = 406
        /\ Returned <=>
              (attempts[Len(attempts)].resp.status # 406 \/ Len(attempts) = 3)
        /\ Returned => response = attempts[Len(attempts)].resp
        /\ ~Returned => attempt = Len(attempts)

\* Two 406 answers, then success on the verbose attempt: the third response is
\* what the list query of getTasks got.
C2_Witness ==
    /\ ReadCall /\ Returned
    /\ Statuses = <<406, 406, 200>>
    /\ pc = "done" /\ op.name = "getTasks" /\ LastCall.fn = "getTasks"
    /\ result.state = "resolved"
    /\ response = attempts[3].resp

\* The error each caller of the read throws on a failed response.
ReadError(fn) ==
    CASE fn \in {"tryGetListInfo", "tryGetListInfoAfter"} -> StoreAccessError
      [] fn \in {"fieldExistsResponsable", "fieldExistsEstado"} -> FieldCheckError
      [] fn = "getTasks" -> LoadTasksError

\* C3: a read whose answers are all 406 makes exactly three requests (it goes
\* on after the first and the second), hands the third response to its caller,
\* and the caller, whichever it is, throws its error with status 406: the
\* operation is rejected and nothing was treated as found or as not found.
C3_AllNotAcceptable ==
    (ReadCall /\ \A k \in 1..Len(attempts) : attempts[k].resp.status = 406) =>
        IF Len(attempts) < 3
        THEN ~Returned /\ pc # "done"
        ELSE /\ Len(attempts) = 3
             /\ Returned
             /\ response = attempts[3].resp
             /\ pc = "done"
             /\ LastCall.threw
             /\ result.state = "rejected"
             /\ result.error.message = ReadError(LastCall.fn)
             /\ result.error.status = 406

\* The field check of the assignee field answered 406 three times.
C3_Witness ==
    /\ ReadCall /\ Returned
    /\ Statuses = <<406, 406, 406>>
    /\ LastCall.fn = "fieldExistsResponsable"
    /\ result.state = "rejected" /\ result.error.status = 406

\* The latest logical call is a write.
WriteCall == attempts # <<>> /\ attempts[1].req.method = "POST"

\* The body carries the type tag of the verbose format, at the top or in its
\* `parameters`.
Tagged(body) ==
    \/ "__metadata" \in DOMAIN body
    \/ "parameters" \in DOMAIN body /\ "__metadata" \in DOMAIN body.parameters

\* C4: a write tries minimal-metadata, plain JSON with the same body, then
\* verbose with the verbose body, on one url; every attempt but the latest was
\* answered 406; the write goes on exactly while the answer is 406 and an
\* attempt is left, and hands the latest response to the caller.  Every caller
\* supplies a verbose body, deleteTask the empty object, so three attempts are
\* always there; a write without a verbose body has two.
C4_WriteFallback ==
    /\ WriteCall =>
        /\ Len(attempts) <= 3
        /\ \A k \in 1..Len(attempts) :
              /\ attempts[k].req.url = attempts[1].req.url
              /\ attempts[k].req.headers["Accept"] =
                    CASE k = 1 -> "application/json;odata=nometadata"
                      [] k = 2 -> "application/json"
                      [] k = 3 -> "application/json;odata=verbose"
              /\ attempts[k].req.headers["Content-Type"] =
                    attempts[k].req.headers["Accept"]
              /\ k <= 2 => /\ attempts[k].req.body = attempts[1].req.body
                           /\ ~Tagged(attempts[k].req.body)
              /\ k = 3 => IF attempts[1].req.headers = ("Accept" :> "application/json;odata=nometadata"
                                @@ "Content-Type" :> "application/json;odata=nometadata"
                                @@ "IF-MATCH" :> "*" @@ "X-HTTP-Method" :> "DELETE")
                          THEN attempts[k].req.body = EmptyObj
                          ELSE Tagged(attempts[k].req.body)
              /\ k < Len(attempts) => attempts[k].resp.status = 406
        /\ Returned <=>
              (attempts[Len(attempts)].resp.status # 406 \/ Len(attempts) = 3)
        /\ Returned => response = attempts[Len(attempts)].resp
        /\ ~Returned => attempt = Len(attempts)
    /\ \A b \in {EmptyObj, [Title |-> "t"]} :
        /\ Len(PostAttempts(ItemsUrl, b, NoObject, NoObject)) = 2
        /\ Len(PostAttempts(ItemsUrl, b, EmptyObj, NoObject)) = 3

\* deleteTask was answered 406 on all of its three attempts, the third of which
\* carried the empty verbose body, and got the third response.
C4_Witness ==
    /\ WriteCall /\ Returned
    /\ op.name = "deleteTask" /\ LastCall.fn = "deleteTask"
    /\ Statuses = <<406, 406, 406>>
    /\ attempts[3].req.body = EmptyObj
    /\ response = attempts[3].resp

\* The first list check of the operation has just returned.
FirstCheckReturned ==
    /\ Len(calls) = 1
    /\ Returned
    /\ attempts[1].req.url = ListUrl

\* C5: when the first list check comes back with a failure other than 404
\* (406 after the three attempts included), the operation is rejected with the
\* StoreAccessError carrying the response's status, status text and body, and
\* the only requests it issued are those of the list check.
C5_StoreAccessError ==
    (FirstCheckReturned /\ ~Ok(response) /\ response.status # 404) =>
        /\ pc = "done"
        /\ result = Rejected([message |-> StoreAccessError,
                              status |-> response.status,
                              statusText |-> response.statusText,
                              text |-> response.text])
        /\ calls = <<[fn |-> "tryGetListInfo", threw |-> TRUE, info |-> Undefined]>>
        /\ \A k \in 1..Len(attempts) :
              attempts[k].req.method = "GET" /\ attempts[k].req.url = ListUrl

\* The first list check was refused with 403 and a body.
C5_Witness ==
    /\ FirstCheckReturned
    /\ response.status = 403 /\ response.text = "Access denied"
    /\ result.state = "rejected"
    /\ result.error.message = StoreAccessError
    /\ result.error.text = "Access denied"

\* The creation of the list has just returned.
CreateReturned ==
    /\ calls # <<>>
    /\ LastCall.fn = "createTaskList"
    /\ Returned
    /\ attempts[1].req.url = CreateListUrl

\* C6: when the creation of the list is answered 2xx or 409 the protocol goes
\* on to the list check after it, nothing thrown; on any other answer the
\* operation is rejected, with the permission error for 401 and 403 and the
\* creation error otherwise, either carrying the response's status and body,
\* and the creation's requests are the last it issued.
C6_CreateCollection ==
    CreateReturned =>
        IF Ok(response) \/ response.status = 409
        THEN /\ pc = "tryGetListInfoAfter"
             /\ result = Pending
             /\ ~LastCall.threw
        ELSE /\ pc = "done"
             /\ LastCall.threw
             /\ result = Rejected(
                    [message |-> IF response.status \in {401, 403}
                                 THEN ListPermissionError ELSE CreationError,
                     status |-> response.status,
                     statusText |-> response.statusText,
                     text |-> response.text])
             /\ \A k \in 1..Len(attempts) : attempts[k].req.url = CreateListUrl

\* An operation resolved although the creation of the list was answered 409.
C6_Witness ==
    /\ pc = "done"
    /\ result.state = "resolved"
    /\ \E k \in 1..Len(calls) :
          calls[k].fn = "createTaskList" /\ calls[k].status = 409

\* The list check after the creation has just returned.
AfterCheckReturned ==
    /\ calls # <<>>
    /\ LastCall.fn = "tryGetListInfoAfter"
    /\ Returned
    /\ attempts[1].req.url = ListUrl

\* The response reports descriptor d, in either envelope.
Reports(r, d) ==
    /\ Ok(r)
    /\ \/ r.json = [ListItemEntityTypeFullName |-> d]
       \/ r.json = [d |-> [ListItemEntityTypeFullName |-> d]]

\* The response says the list is not there: 404, or ok without a descriptor.
ReportsNothing(r) ==
    \/ r.status = 404
    \/ Ok(r) /\ \A d \in Descriptors : ~Reports(r, d)

\* C7: the creation of the list is called at most once in an operation, as the
\* second call, and a creation that did not throw is followed by one list
\* check and by no other creation.  When that check finds the descriptor, the
\* descriptor is cached and the protocol goes to the fields; when it does not
\* find the list, the operation is rejected with the ProvisioningError, having
\* issued no field and no item request.
C7_CheckAfterCreate ==
    /\ \A k \in 1..Len(calls) :
          /\ calls[k].fn = "createTaskList" => k = 2
          /\ calls[k].fn = "tryGetListInfoAfter" =>
                k = 3 /\ calls[2].fn = "createTaskList" /\ ~calls[2].threw
          /\ (calls[k].fn = "createTaskList" /\ ~calls[k].threw) =>
                IF k = Len(calls) THEN pc = "tryGetListInfoAfter"
                ELSE calls[k + 1].fn = "tryGetListInfoAfter"
    /\ AfterCheckReturned =>
          /\ \A d \in Descriptors : Reports(response, d) =>
                /\ cache = d
                /\ pc = "fieldExistsResponsable"
                /\ result = Pending
          /\ ReportsNothing(response) =>
                /\ pc = "done"
                /\ result = Rejected([message |-> ProvisioningError])
                /\ Len(calls) = 3
                /\ \A k \in 1..Len(attempts) : attempts[k].req.url = ListUrl

\* The list was created, and the check after the creation still got 404.
C7_Witness ==
    /\ AfterCheckReturned
    /\ response.status = 404
    /\ calls[2].status = 204
    /\ result = Rejected([message |-> ProvisioningError])

\* The place of each call in the protocol.
Rank(fn) ==
    CASE fn = "tryGetListInfo" -> 1
      [] fn = "createTaskList" -> 2
      [] fn = "tryGetListInfoAfter" -> 3
      [] fn = "fieldExistsResponsable" -> 4
      [] fn = "ensureFieldXmlResponsable" -> 5
      [] fn = "fieldExistsEstado" -> 6
      [] fn = "ensureFieldXmlEstado" -> 7
      [] OTHER -> 8

\* What comes after the k-th call: the next call, or the await the operation is at.
Following(k) == IF k < Len(calls) THEN calls[k + 1].fn ELSE pc

SameLetter(a, b) ==
    a = b \/ \E k \in 1..26 : {a, b} = {UpperChars[k], LowerChars[k]}

EqualsIgnoringCase(s, t) ==
    Len(s) = Len(t) /\ \A k \in 1..Len(s) : SameLetter(s[k], t[k])

\* The fields the response lists include one named `name`, whatever the case.
Lists(r, name) ==
    \E k \in 1..Len(ArrayOf(r.json)) :
        /\ "InternalName" \in DOMAIN ArrayOf(r.json)[k]
        /\ EqualsIgnoringCase(ArrayOf(r.json)[k].InternalName, name)

\* The calls that create a field, in the order they were made.
FieldCreations ==
    SelectSeq([k \in 1..Len(calls) |-> calls[k].fn],
              LAMBDA fn : fn \in {"ensureFieldXmlResponsable", "ensureFieldXmlEstado"})

\* C8: the calls of an operation follow the order of the protocol, so the
\* assignee field is checked before the status field and every field call
\* comes before the item-level call; a field check finds the field exactly
\* when the response lists its internal name, case ignored; the creation of a
\* field is called, once, exactly after a check of that field that did not
\* find it.  createTask with both fields missing therefore creates the
\* assignee field, then the status field, then the item, and with both fields
\* present creates no field.
C8_EnsureFields ==
    /\ \A j, k \in 1..Len(calls) : j < k => Rank(calls[j].fn) < Rank(calls[k].fn)
    /\ \A f \in {"Responsable", "Estado"} : \A k \in 1..Len(calls) :
          /\ (calls[k].fn = "fieldExists" \o f /\ ~calls[k].threw) =>
                (Following(k) = "ensureFieldXml" \o f <=> ~calls[k].exists)
          /\ (calls[k].fn = "ensureFieldXml" \o f) =>
                /\ k > 1
                /\ calls[k - 1].fn = "fieldExists" \o f
                /\ ~calls[k - 1].exists
    /\ (calls # <<>> /\ Returned /\ Ok(response)) =>
          /\ LastCall.fn = "fieldExistsResponsable" =>
                (LastCall.exists <=> Lists(response, Responsable))
          /\ LastCall.fn = "fieldExistsEstado" =>
                (LastCall.exists <=> Lists(response, Estado))
    /\ (calls # <<>> /\ LastCall.fn = "createTask") =>
          LET checks == {k \in 1..Len(calls) :
                            calls[k].fn \in {"fieldExistsResponsable", "fieldExistsEstado"}}
          IN  /\ Cardinality(checks) = 2
              /\ (\A k \in checks : ~calls[k].exists) =>
                    FieldCreations = <<"ensureFieldXmlResponsable", "ensureFieldXmlEstado">>
              /\ (\A k \in checks : calls[k].exists) => FieldCreations = <<>>

\* createTask found the list without either field, created both and the item.
C8_Witness ==
    /\ pc = "done" /\ op.name = "createTask" /\ result.state = "resolved"
    /\ [k \in 1..Len(calls) |-> calls[k].fn] =
          <<"tryGetListInfo", "fieldExistsResponsable", "ensureFieldXmlResponsable",
            "fieldExistsEstado", "ensureFieldXmlEstado", "createTask">>
    /\ ~calls[2].exists /\ ~calls[4].exists

\* The list query of getTasks has just returned.
ItemsReturned ==
    /\ pc = "done" /\ op.name = "getTasks"
    /\ LastCall.fn = "getTasks"
    /\ Ok(response)

\* The task getTasks is to return for a list item.
Shown(item, key, default) ==
    IF key \in DOMAIN item /\ item[key] # "" THEN item[key] ELSE default

IsTaskOf(task, item) ==
    /\ DOMAIN task = {"Title", "Responsable", "Estado", "Autor", "Creado", "Modificado"}
                        \cup (IF "Id" \in DOMAIN item THEN {"ID"} ELSE {})
    /\ "Id" \in DOMAIN item => task.ID = item.Id
    /\ task.Title = Shown(item, "Title", "")
    /\ task.Responsable = Shown(item, "Responsable", "")
    /\ task.Estado = Shown(item, "Estado", "Pendiente")
    /\ task.Autor = (IF "Author" \in DOMAIN item THEN Shown(item.Author, "Title", "") ELSE "")
    /\ task.Creado = Shown(item, "Created", "")
    /\ task.Modificado = Shown(item, "Modified", "")

\* C9: getTasks resolves with one task per item of the array the response
\* carries under `value` or under `d.results`, in the array's order, an item
\* without a status shown as Pendiente; with an empty sequence when the
\* response carries neither; and the two envelopes of one array give the same
\* tasks.
C9_GetTasksDecoding ==
    ItemsReturned =>
          /\ result.state = "resolved"
          /\ \A items \in ItemLists :
                response.json \in {[value |-> items], [d |-> [results |-> items]]} =>
                    /\ Len(result.value) = Len(items)
                    /\ \A k \in 1..Len(items) : IsTaskOf(result.value[k], items[k])
                    /\ result.value = GetTasks([response EXCEPT !.json = [value |-> items]]).value
                    /\ result.value =
                          GetTasks([response EXCEPT !.json = [d |-> [results |-> items]]]).value
          /\ ("value" \notin DOMAIN response.json
                /\ ("d" \in DOMAIN response.json =>
                        "results" \notin DOMAIN response.json.d)) =>
                result.value = <<>>

\* getTasks decoded two items from the legacy envelope, the second without a status.
C9_Witness ==
    /\ ItemsReturned
    /\ "d" \in DOMAIN response.json
    /\ "results" \in DOMAIN response.json.d
    /\ Len(response.json.d.results) = 2
    /\ "Estado" \in DOMAIN response.json.d.results[1]
    /\ "Estado" \notin DOMAIN response.json.d.results[2]
    /\ "Id" \in DOMAIN response.json.d.results[1]
    /\ result.value[1].ID = 1
    /\ result.value[1].Estado = "En Progreso"
    /\ result.value[2].Estado = "Pendiente"

\* The latest logical call is the item-level write of updateTask or deleteTask.
ItemWriteOf(name) ==
    /\ op.name = name
    /\ attempts # <<>>
    /\ \/ pc = "item" /\ attempt > 0
       \/ pc = "done" /\ LastCall.fn = name

\* Every request of the latest call is a POST to the item of the operation's
\* identifier with the overwrite header and the method override.
PostsToItem(method) ==
    \A k \in 1..Len(attempts) :
        /\ attempts[k].req.method = "POST"
        /\ attempts[k].req.url = [path |-> "getbytitle/items(id)", id |-> op.taskId]
        /\ DOMAIN attempts[k].req.headers =
              {"Accept", "Content-Type", "IF-MATCH", "X-HTTP-Method"}
        /\ attempts[k].req.headers["IF-MATCH"] = "*"
        /\ attempts[k].req.headers["X-HTTP-Method"] = method

\* The three fields of the task updateTask was called with.
ThreeFields ==
    [Title |-> op.task.Title, Responsable |-> op.task.Responsable,
     Estado |-> op.task.Estado]

\* C10 as claimed: every attempt of updateTask's item-level write is a POST to
\* the item with IF-MATCH: * and X-HTTP-Method: MERGE and a body of exactly
\* the three fields; every attempt of deleteTask's is a POST to the item with
\* IF-MATCH: * and X-HTTP-Method: DELETE.
C10_AsClaimed ==
    /\ ItemWriteOf("updateTask") =>
          /\ PostsToItem("MERGE")
          /\ \A k \in 1..Len(attempts) : attempts[k].req.body = ThreeFields
    /\ ItemWriteOf("deleteTask") => PostsToItem("DELETE")

\* C10, amended: as claimed, except that the body of the third, verbose attempt
\* of updateTask is the three fields and the `__metadata` type tag.
C10_UpdateDeleteRequests ==
    /\ ItemWriteOf("updateTask") =>
          /\ PostsToItem("MERGE")
          /\ \A k \in 1..Len(attempts) :
                IF k <= 2
                THEN attempts[k].req.body = ThreeFields
                ELSE /\ DOMAIN attempts[k].req.body =
                            {"Title", "Responsable", "Estado", "__metadata"}
                     /\ \A key \in {"Title", "Responsable", "Estado"} :
                            attempts[k].req.body[key] = ThreeFields[key]
                     /\ DOMAIN attempts[k].req.body["__metadata"] = {"type"}
    /\ ItemWriteOf("deleteTask") => PostsToItem("DELETE")

\* updateTask of item 2 went through all three attempts, the task it was called
\* with carrying more than the three fields.
C10_Witness ==
    /\ ItemWriteOf("updateTask")
    /\ op.taskId = 2 /\ "ID" \in DOMAIN op.task
    /\ Len(attempts) = 3
    /\ attempts[1].req.body = ThreeFields
    /\ "__metadata" \in DOMAIN attempts[3].req.body
    /\ attempts[3].req.headers["X-HTTP-Method"] = "MERGE"

\* The item-level call of the operation has just returned its response.
ItemCallReturned ==
    /\ Returned
    /\ attempts[1].req.url.path \in ItemPaths

\* The error each public operation throws on a failed item-level response.
ItemError(name) ==
    CASE name = "getTasks" -> LoadTasksError
      [] name = "createTask" -> CreateTaskError
      [] name = "updateTask" -> UpdateTaskError
      [] name = "deleteTask" -> DeleteTaskError

\* C11: when the item-level call of getTasks, createTask, updateTask or
\* deleteTask comes back with a response that is not 2xx, the operation is
\* rejected with its own error carrying the response's status, status text and
\* body text as the server sent them, and nothing is sent again: the call was
\* made once, its requests but the last were the 406 answers of the format
\* fallback, and the operation is over.
C11_ItemFailure ==
    (ItemCallReturned /\ ~Ok(response)) =>
        /\ pc = "done"
        /\ LastCall = [fn |-> op.name, threw |-> TRUE]
        /\ result = Rejected([message |-> ItemError(op.name),
                              status |-> response.status,
                              statusText |-> response.statusText,
                              text |-> response.text])
        /\ response = attempts[Len(attempts)].resp
        /\ Len(attempts) <= 3
        /\ \A k \in 1..(Len(attempts) - 1) : attempts[k].resp.status = 406
        /\ Cardinality({k \in 1..Len(calls) : calls[k].fn \in ItemFns}) = 1

\* deleteTask was refused with 403 and a body on its first request.
C11_Witness ==
    /\ ItemCallReturned
    /\ op.name = "deleteTask"
    /\ Len(attempts) = 1
    /\ response.status = 403 /\ response.text = "Access denied"
    /\ result.state = "rejected"
    /\ result.error.message = DeleteTaskError
    /\ result.error.status = 403 /\ result.error.text = "Access denied"

\* The creation of a field has just returned its response.
FieldCreationReturned ==
    /\ calls # <<>>
    /\ LastCall.fn \in {"ensureFieldXmlResponsable", "ensureFieldXmlEstado"}
    /\ Returned
    /\ attempts[1].req.url = CreateFieldUrl

\* C15: a field creation is called for a field the check just before it did
\* not find.  When it comes back 401 or 403 the operation is rejected with the
\* permission error, whose message names that field and says an administrator
\* must create the fields; on any other answer that is not 2xx it is rejected
\* with the field-creation error; either carries the response's status and
\* body, and the operation is over: the creation's requests are the last it
\* issued, so no field check, field creation or item request follows.
C15_FieldCreationFailure ==
    (FieldCreationReturned /\ ~Ok(response)) =>
        /\ Len(calls) >= 2
        /\ calls[Len(calls) - 1] =
              [fn |-> IF LastCall.fn = "ensureFieldXmlResponsable"
                      THEN "fieldExistsResponsable" ELSE "fieldExistsEstado",
               threw |-> FALSE, exists |-> FALSE]
        /\ pc = "done"
        /\ LastCall.threw
        /\ result.state = "rejected"
        /\ result.error.status = response.status
        /\ result.error.statusText = response.statusText
        /\ result.error.text = response.text
        /\ IF response.status \in {401, 403}
           THEN /\ result.error.message = FieldPermissionError
                /\ FieldAt(LastCall.fn) \in FieldsNamed(result.error.message)
                /\ AsksAdministrator(result.error.message)
           ELSE /\ result.error.message = FieldCreationError
                /\ ~AsksAdministrator(result.error.message)
        /\ \A k \in 1..Len(attempts) : attempts[k].req.url = CreateFieldUrl
        /\ ~ItemRequested
        /\ LastCall.fn = "ensureFieldXmlResponsable" =>
              \A k \in 1..Len(calls) :
                  calls[k].fn \notin {"fieldExistsEstado", "ensureFieldXmlEstado"}

\* The assignee field was created, the creation of the status field refused.
C15_Witness ==
    /\ FieldCreationReturned
    /\ LastCall.fn = "ensureFieldXmlEstado"
    /\ response.status = 403
    /\ result.state = "rejected"
    /\ result.error.message = FieldPermissionError
    /\ \E k \in 1..Len(calls) :
          calls[k].fn = "ensureFieldXmlResponsable" /\ ~calls[k].threw

\* The list checks of this operation that found a descriptor, as positions in calls.
ChecksThatFound ==
    {k \in 1..Len(calls) :
        /\ calls[k].fn \in {"tryGetListInfo", "tryGetListInfoAfter"}
        /\ calls[k].info # Undefined}

\* The requests of the latest call that are verbose item writes of createTask
\* or updateTask, as positions in attempts.
VerboseItemWrites ==
    {k \in 1..Len(attempts) :
        /\ op.name \in {"createTask", "updateTask"}
        /\ attempts[k].req.method = "POST"
        /\ attempts[k].req.url.path \in ItemPaths
        /\ attempts[k].req.headers["Accept"] = "application/json;odata=verbose"}

\* C16: the cached descriptor is undefined or a descriptor a list check
\* reported; a list check of this operation that found a descriptor leaves it
\* in the cache; and every verbose item write of createTask and updateTask
\* carries, as its type tag, the descriptor the latest list check of the same
\* operation found, never the default SP.ListItem.
C16_DescriptorReused ==
    /\ cache \in Descriptors \cup {Undefined}
    /\ ChecksThatFound # {} =>
          cache = calls[CHOOSE k \in ChecksThatFound :
                            \A j \in ChecksThatFound : j <= k].info
    /\ \A k \in VerboseItemWrites :
          /\ ChecksThatFound # {}
          /\ attempts[k].req.body["__metadata"] = [type |-> cache]
          /\ attempts[k].req.body["__metadata"].type \in Descriptors
          /\ attempts[k].req.body["__metadata"].type # "SP.ListItem"

\* A second operation on the client, an update, sent in its verbose write the
\* descriptor its own list check had found.
C16_Witness ==
    /\ opsDone = 2
    /\ op.name = "updateTask"
    /\ VerboseItemWrites = {3}
    /\ attempts[3].req.body["__metadata"].type = "SP.Data.TasksListItem"
    /\ calls[1].info = "SP.Data.TasksListItem"

\* A request that creates the list is in the history of this operation.
CreationRequested ==
    \/ \E k \in 1..Len(attempts) : attempts[k].req.url = CreateListUrl
    \/ \E k \in 1..Len(calls) : calls[k].fn = "createTaskList"

\* The first list check of this operation has returned and the operation went on.
FirstCheckPassed == calls # <<>> /\ ~calls[1].threw

\* C17 as claimed: the creation of the list is requested only when the first
\* list check was answered 404, and a first check that found the list goes to
\* the fields without a creation.
C17_AsClaimed ==
    /\ CreationRequested => (Len(calls) = 1 => response.status = 404)
    /\ (FirstCheckPassed /\ calls[1].info # Undefined) =>
          ~CreationRequested /\ Following(1) = "fieldExistsResponsable"

\* What the first list check was answered with, while it is the only call made.
FirstCheckNotFound == response.status = 404
FirstCheckNoDescriptor == Ok(response) /\ \A d \in Descriptors : ~Reports(response, d)

\* C17, amended: the creation of the list is requested only after a first list
\* check that was answered 404, or answered 2xx without a usable descriptor;
\* it is the call that follows exactly such a check; and a first check that
\* found the list goes to the fields, no creation requested in the operation.
C17_CreateOnlyWhenNotFound ==
    /\ CreationRequested =>
          /\ FirstCheckPassed
          /\ calls[1].fn = "tryGetListInfo"
          /\ calls[1].info = Undefined
          /\ Len(calls) = 1 => (FirstCheckNotFound \/ FirstCheckNoDescriptor)
    /\ (FirstCheckPassed /\ calls[1].info = Undefined) =>
          Following(1) = "createTaskList"
    /\ (Len(calls) = 1 /\ FirstCheckPassed) =>
          (calls[1].info = Undefined <=> (FirstCheckNotFound \/ FirstCheckNoDescriptor))
    /\ (FirstCheckPassed /\ calls[1].info # Undefined) =>
          /\ ~CreationRequested
          /\ Following(1) = "fieldExistsResponsable"
          /\ Len(calls) = 1 => cache = calls[1].info

\* The first list check was answered 200 with a body that carries no
\* descriptor, and the creation of the list has been requested.
C17_Witness ==
    /\ Len(calls) = 1
    /\ FirstCheckNoDescriptor
    /\ response.status = 200
    /\ pc = "createTaskList"
    /\ attempt = 1
    /\ attempts[1].req.url = CreateListUrl

\* The logical calls this operation has started, finished or not, in order.
StartedFns ==
    [k \in 1..Len(calls) |-> calls[k].fn]
        \o (IF pc \in {"idle", "done"} THEN <<>>
            ELSE <<IF pc = "item" THEN op.name ELSE pc>>)

\* How many of the calls started are among fns.
Started(fns) == Cardinality({k \in 1..Len(StartedFns) : StartedFns[k] \in fns})

\* C19: a logical call makes at most three requests; an operation starts at
\* most two list checks, one creation of the list, two field checks, two field
\* creations and one item-level call, each call later in the protocol than the
\* one before it, so no step is gone back to and at most eight calls of three
\* requests are made; an operation in progress can always take its next step
\* when the pending request is answered, and an operation that is over has
\* resolved or rejected.
C19_BoundedRequests ==
    /\ Len(attempts) <= 3
    /\ attempt <= 2
    /\ attempt > 0 => attempt = Len(attempts)
    /\ Len(StartedFns) <= 8
    /\ \A j, k \in 1..Len(StartedFns) :
          j < k => Rank(StartedFns[j]) < Rank(StartedFns[k])
    /\ Started({"tryGetListInfo", "tryGetListInfoAfter"}) <= 2
    /\ Started({"createTaskList"}) <= 1
    /\ Started({"fieldExistsResponsable", "fieldExistsEstado"}) <= 2
    /\ Started({"ensureFieldXmlResponsable", "ensureFieldXmlEstado"}) <= 2
    /\ Started(ItemFns) <= 1
    /\ pc \notin {"idle", "done"} =>
          /\ result = Pending
          /\ ENABLED (AwaitTryGetListInfo \/ AwaitCreateTaskList \/ AwaitFieldExists
                        \/ AwaitEnsureFieldXml \/ AwaitGetTasks \/ AwaitCreateTask
                        \/ AwaitUpdateTask \/ AwaitDeleteTask)
    /\ pc = "done" => result.state \in {"resolved", "rejected"}

\* An operation made all eight calls of the protocol, the last with three requests.
C19_Witness ==
    /\ pc = "done"
    /\ Len(calls) = 8
    /\ LastCall.fn = "createTask"
    /\ Len(attempts) = 3
    /\ result.state = "resolved"

\* The handlers of a create, an update or a delete that are suspended at an
\* await, as positions in running.
InFlight ==
    {k \in 1..Len(running) : running[k].kind \in {"create", "update", "delete"}}

MutationIntents == {"handleCreateTask", "handleUpdateTask", "handleDeleteTask"}

\* What a handler that returns early leaves alone: the component's state and
\* the handlers in flight.
HostState ==
    <<tasks, newTask, editingTaskId, isLoading, error, isSubmitting, mounted,
      running, mutations>>

\* C12: at most one create, update or delete is in flight at any time, and a
\* create, update or delete handler that is entered while the guard is held
\* calls nothing on the client and changes nothing.
C12_GuardSerializes ==
    /\ [](Cardinality(InFlight) <= 1)
    /\ [][(isSubmitting /\ event'.name \in MutationIntents) =>
              /\ event'.path = "return"
              /\ event'.call = NoCall
              /\ UNCHANGED HostState]_hostVars

\* An update was asked for, with a task being edited, while a create was
\* waiting for the client; it returned early.
C12_Witness ==
    /\ isSubmitting
    /\ event.name = "handleUpdateTask" /\ event.path = "return"
    /\ TruthyId(editingTaskId)
    /\ running = <<[kind |-> "create", at |-> "createTask"]>>

\* The step that led here called createTask or updateTask on the client.
DraftSubmitted == event.call.name \in {"createTask", "updateTask"}

\* C13: createTask and updateTask are called on the client only with a title
\* and an assignee that are not blank, and a submit that is turned down for a
\* blank field calls nothing on the client.
C13_NonBlankBeforeAccepted ==
    /\ DraftSubmitted =>
          /\ ~IsBlank(event.call.task.Title)
          /\ ~IsBlank(event.call.task.Responsable)
    /\ (event.name \in MutationIntents /\ event.path = "invalid") =>
          event.call = NoCall

\* The step that led here was the rejection of a call on the client.
Rejection == event.name = "settles" /\ event.res.state = "rejected"

\* C14: when a call on the client rejects, whether the initial load made it, a
\* create, an update or a delete, or the refresh after one of these, the
\* handler that awaited it ends in that step: the message of the error is on
\* display, the loading indicator is off, the guard is released if the handler
\* held it (and then held by nobody), and the step calls nothing on the
\* client, so nothing is tried again.
C14_FailureReachesUI ==
    Rejection =>
        /\ error = event.res.error.message
        /\ Truthy(error)
        /\ ~isLoading
        /\ event.kind # "mount" => (~isSubmitting /\ InFlight = {})
        /\ isSubmitting => InFlight # {}
        /\ event.call = NoCall
        /\ Len(running) <= 1

\* The create went through, the refresh after it failed.
C14_Witness ==
    /\ Rejection
    /\ event.kind = "create" /\ event.at = "getTasks"
    /\ error = LoadTasksError
    /\ ~isLoading /\ ~isSubmitting
    /\ running = <<>>

\* The fetches in flight: the handlers suspended at the await of getTasks.
Fetching == {k \in 1..Len(running) : running[k].at = "getTasks"}

\* C18: whatever other fetch is in flight and whichever was issued first, the
\* step in which a fetch resolves puts its result on display, the step in
\* which a fetch rejects leaves the list on display as it was, and no other
\* step changes the list: at any time the list is the result of the fetch
\* that resolved last.
C18_LastFetchWins ==
    [][/\ (event'.name = "settles" /\ event'.at = "getTasks") =>
              IF event'.res.state = "resolved"
              THEN tasks' = event'.res.value
              ELSE tasks' = tasks
       /\ tasks' # tasks =>
              /\ event'.name = "settles"
              /\ event'.at = "getTasks"
              /\ event'.res.state = "resolved"]_hostVars

\* The refresh after a create resolved while the initial load, issued before
\* it, was still in flight, and its result is on display.
C18_Witness ==
    /\ event.name = "settles" /\ event.at = "getTasks" /\ event.kind = "create"
    /\ event.res.state = "resolved"
    /\ running = <<[kind |-> "mount", at |-> "getTasks"]>>
    /\ tasks = <<HostTasks.a>>

\* The draft passes the check of _handleCreateTask.
ValidDraft == ~IsBlank(newTask.Title) /\ ~IsBlank(newTask.Responsable)

\* C20: the guard is set exactly while a create, an update or a delete is
\* suspended at an await, its own refresh included.  It goes from set to
\* unset only in the step that ends such a handler: the rejection of its call
\* on the client, or the settling, either way, of its refresh.  So with no
\* mutation in flight the guard is unset, and a create with a valid draft, or
\* an update with a task being edited, is then accepted: it sets the guard and
\* calls the client with the draft.
C20_GuardWhileRunning ==
    /\ [](isSubmitting <=> InFlight # {})
    /\ [][(isSubmitting /\ ~isSubmitting') =>
              /\ event'.name = "settles"
              /\ event'.kind \in {"create", "update", "delete"}
              /\ (event'.at = "getTasks" \/ event'.res.state = "rejected")
              /\ InFlight' = {}]_hostVars
    /\ [][(event'.name = "settles" /\ event'.at # "getTasks"
                /\ event'.res.state = "resolved") =>
              /\ isSubmitting'
              /\ \E k \in InFlight' : running'[k].at = "getTasks"]_hostVars
    /\ [][(InFlight = {} /\ event'.name = "handleCreateTask" /\ ValidDraft) =>
              /\ event'.path = "submit"
              /\ event'.call = [name |-> "createTask", task |-> newTask]
              /\ isSubmitting']_hostVars
    /\ [][(InFlight = {} /\ event'.name = "handleUpdateTask" /\ TruthyId(editingTaskId)) =>
              /\ event'.path = "submit"
              /\ event'.call =
                    [name |-> "updateTask", taskId |-> editingTaskId, task |-> newTask]
              /\ isSubmitting']_hostVars

\* A first mutation is over, its refresh having failed, and a create with a
\* valid draft has been accepted after it.
C20_Witness ==
    /\ mutations = 2
    /\ event.name = "handleCreateTask" /\ event.path = "submit"
    /\ error = LoadTasksError
    /\ isSubmitting
    /\ running = <<[kind |-> "create", at |-> "createTask"]>>

\* The requests of the latest logical call that post an item to the list.
ItemPosts ==
    {k \in 1..Len(attempts) :
        attempts[k].req.method = "POST" /\ attempts[k].req.url = ItemsUrl}

\* The posts that may have created an item: the store does nothing with a
\* request it answers 406, and may have acted on one it answers otherwise,
\* with a failure included.
ItemsCreated == {k \in ItemPosts : attempts[k].resp.status # 406}

\* C21: the posts of an item are the requests of the one item-level call of a
\* createTask; each of them but the first follows a post answered 406, with
\* the same fields; no request follows a post answered otherwise, the
\* operation settling on it; so at most one of the posts of a createTask may
\* have created an item.
C21_AtMostOneItem ==
    /\ ItemPosts # {} =>
          /\ op.name = "createTask"
          /\ ItemPosts = 1..Len(attempts)
          /\ Started({"createTask"}) = 1
    /\ \A k \in ItemPosts :
          /\ k > 1 => attempts[k - 1].resp.status = 406
          /\ k > 1 => \A f \in {"Title", "Responsable", "Estado"} :
                          attempts[k].req.body[f] = attempts[1].req.body[f]
          /\ attempts[k].resp.status # 406 =>
                /\ k = Len(attempts)
                /\ pc = "done"
                /\ LastCall.fn = "createTask"
    /\ Cardinality(ItemsCreated) <= 1

\* The first post of a createTask was answered 406 and the second 500: the
\* operation is rejected and the post is not sent a third time.
C21_Witness ==
    /\ pc = "done" /\ op.name = "createTask"
    /\ ItemPosts = {1, 2}
    /\ Statuses = <<406, 500>>
    /\ ItemsCreated = {2}
    /\ result.state = "rejected"
    /\ result.error.message = CreateTaskError

\* The identifiers of the tasks on display.
Displayed == {tasks[k].ID : k \in 1..Len(tasks)}

\* C22: whenever a task is being edited and no handler is suspended at an
\* await, the task being edited is one of the tasks on display.
C22_EditTargetOnDisplay ==
    (TruthyId(editingTaskId) /\ running = <<>>) => editingTaskId \in Displayed

\* The refresh after a delete has resolved with a list that no longer holds
\* the task that is still being edited.
C22_DeletedWhileEdited ==
    /\ event.name = "settles" /\ event.kind = "delete" /\ event.at = "getTasks"
    /\ event.res.state = "resolved"
    /\ running = <<>>
    /\ editingTaskId = 1
    /\ tasks = <<>>

\* The form: the draft and the task being edited.
Form == <<newTask, editingTaskId>>

\* C23: the step in which createTask or updateTask rejects leaves the draft
\* and the task being edited as they were, and releases the guard; the step
\* in which createTask or updateTask resolves sets the draft to an empty
\* title, an empty assignee and the status "Pendiente", an update leaving edit
\* mode with it and a create leaving the task being edited alone; the steps in
\* which deleteTask settles, either way, and those in which a refresh settles
\* leave the draft and the task being edited as they were.
C23_FormAfterSettlement ==
    [][event'.name = "settles" =>
          /\ (event'.at \in {"createTask", "updateTask"}
                  /\ event'.res.state = "rejected") =>
                /\ UNCHANGED Form
                /\ ~isSubmitting'
          /\ (event'.at \in {"createTask", "updateTask"}
                  /\ event'.res.state = "resolved") =>
                newTask' = [Title |-> <<>>, Responsable |-> <<>>, Estado |-> "Pendiente"]
          /\ (event'.at = "updateTask" /\ event'.res.state = "resolved") =>
                editingTaskId' = NoTaskId
          /\ (event'.at = "createTask" /\ event'.res.state = "resolved") =>
                UNCHANGED editingTaskId
          /\ event'.kind = "delete" => UNCHANGED Form
          /\ event'.at = "getTasks" => UNCHANGED Form]_hostVars

\* An update of task 1 was rejected: the form still holds the draft and is
\* still in edit mode, the guard released.
C23_Witness ==
    /\ event.name = "settles" /\ event.at = "updateTask"
    /\ event.res.state = "rejected"
    /\ editingTaskId = 1
    /\ newTask = [Title |-> <<"T">>, Responsable |-> <<"T">>, Estado |-> "Cancelada"]
    /\ error = UpdateTaskError
    /\ ~isSubmitting

\* The creations of the list that were not answered with a conflict.
ListCreations ==
    {k \in 1..Len(issued) :
        issued[k].fn = "createTaskList" /\ issued[k].status # 409}

\* The creations of field f that were requested.
FieldCreationsOf(f) ==
    {k \in 1..Len(issued) : issued[k].fn = "ensureFieldXml" /\ issued[k].field = f}

\* C24: with two tabs running the protocol on one store, at most one creation
\* of the list is answered otherwise than with a conflict, at most one
\* creation is requested for each required field, and an operation that is
\* over has resolved, in either tab.
C24_ConcurrentProvisioning ==
    /\ Cardinality(ListCreations) <= 1
    /\ \A f \in RequiredFields : Cardinality(FieldCreationsOf(f)) <= 1
    /\ \A c \in Tabs : tabs[c].pc = "done" => tabs[c].result.state = "resolved"

\* Both tabs found the list without the assignee field before either created
\* it: the first creation went through, the second was refused as a
\* duplicate and its tab's operation is rejected.
C24_BothCreateField ==
    /\ Len(issued) = 2
    /\ issued[1] = [tab |-> 1, fn |-> "ensureFieldXml", field |-> Responsable,
                    status |-> 200]
    /\ issued[2] = [tab |-> 2, fn |-> "ensureFieldXml", field |-> Responsable,
                    status |-> 500]
    /\ tabs[2] = [pc |-> "done",
                  result |-> Rejected([message |-> FieldCreationError, status |-> 500,
                                       statusText |-> "Internal Server Error",
                                       text |-> ""])]

====
